---- MODULE Spec2Model ----
(***************************************************************************)
(* Model of retrieval/universal_retrieval.py: the time chunker, the query  *)
(* executor, the chunked series fetcher, the schema auto-detector and the  *)
(* retrieval orchestrator.                                                  *)
(*                                                                          *)
(* Time is counted in ticks.  One second is SubSec ticks, so that instants  *)
(* between two whole seconds exist and the "%S" formatting of a timestamp   *)
(* (which drops them) is not the identity.  One day is DaySecs seconds: the *)
(* real 86400 is scaled down so that a 7 or 14 day chunk is a range TLC can *)
(* enumerate instant by instant.                                            *)
(*                                                                          *)
(* The endpoint is part of the state: the points it stores, the requests    *)
(* the transport fails, and its answers to the discovery requests.  The     *)
(* three specifications draw it from bounded families: SpecChunk (the       *)
(* chunker on any range), SpecFetch (one chunked fetch around a chunk       *)
(* boundary) and SpecRun (one whole retrieval run).                         *)
(***************************************************************************)
EXTENDS Integers, Sequences, FiniteSets, TLC

VARIABLES
    start_str,      \* config: the start of the requested range (a timestamp string)
    end_str,        \* config: the end of the requested range
    resolution,     \* config: the resolution token
    pc,             \* position of the running function
    chunks,         \* value returned by _chunk_time_ranges (its list chunks while it runs)
    chunk_t,        \* _chunk_time_ranges: the loop variable t
    store,          \* the endpoint's data: (unit, field) -> [time -> value]
    faults,         \* the queries <<unit, field, cs, ce>> the transport fails
    fetched,        \* value returned by _query_chunked
    tagResp,        \* the endpoint's answer to SHOW TAG VALUES ... WITH KEY = "unit"
    fieldResp,      \* the endpoint's answer to SHOW FIELD KEYS
    bulkResp,       \* per unit, the endpoint's answer to SELECT * ... LIMIT 200
    probeResp,      \* per unit and field, the answer to SELECT "f" ... LIMIT 1
    sensors_and_fields, \* run_retrieval: the work list, <<col_name, unit, field>>
    done,           \* run_retrieval: the number of work items processed
    all_data,       \* run_retrieval: col_name -> series
    successful,     \* run_retrieval: col_names, in order
    failed,         \* run_retrieval: col_names, in order
    sensor_mapping, \* run_retrieval: col_name -> <<unit, field>>
    failed_mapping, \* run_retrieval: col_name -> <<unit, field>>
    events,         \* the time-series queries issued and the callbacks made, in order
    csv,            \* the CSV file written, if any
    metadata,       \* the metadata sidecar written, if any
    result          \* what run_retrieval returned

configVars == <<start_str, end_str, resolution>>
endpointVars == <<store, faults, tagResp, fieldResp, bulkResp, probeResp>>
runVars == <<sensors_and_fields, done, all_data, successful, failed, sensor_mapping,
             failed_mapping, events, csv, metadata, result>>

vars == <<configVars, endpointVars, runVars, pc, chunks, chunk_t, fetched>>

----------------------------------------------------------------------------
(* Scale of the model *)

SubSec == 2
DaySecs == 1
MaxStartTicks == 3
MaxRangeDays == 30
MaxPoints == 2
MaxFaults == 1
RunRangeDays == 8

Sec == SubSec
Day == DaySecs * Sec

Resolutions == {"1s", "5s", "15s", "1m", "5m", "15m", "1h"}

Min(a, b) == IF a <= b THEN a ELSE b

----------------------------------------------------------------------------
(* _chunk_time_ranges *)

\* pd.Timestamp(s.replace("Z", "")): the instant the string names, to the tick.
ToTimestamp(s) == s

\* t.strftime("%Y-%m-%dT%H:%M:%SZ"): the instant's whole second; the fraction of
\* a second is dropped.
Strftime(t) == t - (t % Sec)

\* days = 7 for "1s", 14 for "5s", "15s", "1m"; 0 stands for "single query".
\* The spans with a slip: seven days for every chunked resolution.
ChunkDaysAlwaysSeven(interval) ==
    IF interval \in {"1s", "5s", "15s", "1m"} THEN 7 ELSE 0

ChunkDays(interval) ==
    IF interval = "1s" THEN 7
    ELSE IF interval \in {"5s", "15s"} THEN 14
    ELSE IF interval = "1m" THEN 14
    ELSE 0

\* The loop with a slip: the next chunk starts one second after the previous end.
RECURSIVE ChunkLoopSkipsASecond(_, _, _, _)
ChunkLoopSkipsASecond(t, end, delta, acc) ==
    IF t < end
    THEN LET chunk_end == Min(t + delta, end)
         IN  ChunkLoopSkipsASecond(chunk_end + Sec, end, delta,
                                   Append(acc, <<Strftime(t), Strftime(chunk_end)>>))
    ELSE acc

\* The while loop: while t < end, append (strftime(t), strftime(min(t + delta, end))).
RECURSIVE ChunkLoop(_, _, _, _)
ChunkLoop(t, end, delta, acc) ==
    IF t < end
    THEN LET chunk_end == Min(t + delta, end)
         IN  ChunkLoop(chunk_end, end, delta,
                       Append(acc, <<Strftime(t), Strftime(chunk_end)>>))
    ELSE acc

ChunkTimeRanges(s, e, interval) ==
    LET start == ToTimestamp(s)
        end == ToTimestamp(e)
    IN  IF start >= end THEN << <<s, e>> >>
        ELSE IF ChunkDays(interval) = 0 THEN << <<s, e>> >>
        ELSE LET out == ChunkLoop(start, end, ChunkDays(interval) * Day, <<>>)
             IN  IF out # <<>> THEN out ELSE << <<s, e>> >>

\* The WHERE clause of _query: time >= cs AND time <= ce.
InQueriedRange(t, c) == c[1] <= t /\ t <= c[2]

----------------------------------------------------------------------------
(* The endpoint and _query *)

Units == {"u1", "u2"}
Fields == {"value_f", "temp"}
Pairs == Units \X Fields

\* Every field name the program can ask for: the stored ones, the generic
\* defaults of _auto_detect and the fallback candidates of run_retrieval.
AllFieldNames == Fields \cup {"value_f", "value_b", "value_i", "value"}

\* GROUP BY time(interval): the width of a bucket.
IntervalTicks(interval) ==
    Sec * (CASE interval = "1s" -> 1
             [] interval = "5s" -> 5
             [] interval = "15s" -> 15
             [] interval = "1m" -> 60
             [] interval = "5m" -> 300
             [] interval = "15m" -> 900
             [] OTHER -> 3600)

SetMax(S) == CHOOSE x \in S : \A y \in S : y <= x

\* A row of a response: a bucket's time and its value, or null.
Row(t, v) == [time |-> t, value |-> v, null |-> FALSE]
NullRow(t) == [time |-> t, value |-> 0, null |-> TRUE]

\* SELECT LAST(field) ... WHERE time >= cs AND time <= ce GROUP BY time(interval)
\* FILL(previous), over the points `data` of one unit and field: no series when
\* no point lies in the range; otherwise one row per bucket from the bucket of cs
\* to the bucket of ce, holding the last point of the bucket within the range, or
\* the previous row's value when the bucket has none (null before the first).
SelectLastFillPrevious(data, cs, ce, interval) ==
    LET W == IntervalTicks(interval)
        pts == {t \in DOMAIN data : cs <= t /\ t <= ce}
        b0 == cs - (cs % W)
        n == ((ce - (ce % W)) - b0) \div W + 1
    IN  IF pts = {} THEN <<>>
        ELSE [k \in 1..n |->
                LET upto == {t \in pts : t < b0 + k * W}
                IN  IF upto = {} THEN NullRow(b0 + (k - 1) * W)
                    ELSE Row(b0 + (k - 1) * W, data[SetMax(upto)])]

\* What _query and _query_chunked return: None, or a series (rows in index order).
None == [none |-> TRUE, rows |-> <<>>]
Series(rows) == [none |-> FALSE, rows |-> rows]

\* The stored points of a unit's field; none for a field the endpoint does not hold.
StoreData(unit, field) ==
    IF <<unit, field>> \in DOMAIN store THEN store[<<unit, field>>] ELSE <<>>

\* _query: None on a transport fault, a non-200 status or a response without a
\* series; otherwise the response's rows as a series indexed by time.
Query(unit, field, cs, ce, interval) ==
    IF <<unit, field, cs, ce>> \in faults THEN None
    ELSE LET rows == SelectLastFillPrevious(StoreData(unit, field), cs, ce, interval)
         IN  IF rows = <<>> THEN None ELSE Series(rows)

----------------------------------------------------------------------------
(* _query_chunked *)

RECURSIVE Concat(_)
Concat(parts) ==
    IF parts = <<>> THEN <<>> ELSE Head(parts) \o Concat(Tail(parts))

\* sort_index(): ascending by time; rows of equal time keep their order (an index
\* that is already monotonic, as a concatenation of ascending parts is, is left
\* as it is).
RECURSIVE InsertByTime(_, _)
InsertByTime(sorted, r) ==
    IF sorted = <<>> THEN <<r>>
    ELSE IF sorted[Len(sorted)].time <= r.time THEN Append(sorted, r)
    ELSE Append(InsertByTime(SubSeq(sorted, 1, Len(sorted) - 1), r), sorted[Len(sorted)])

RECURSIVE SortIndex(_)
SortIndex(rows) ==
    IF rows = <<>> THEN <<>>
    ELSE InsertByTime(SortIndex(SubSeq(rows, 1, Len(rows) - 1)), rows[Len(rows)])

\* The deduplication keeping the first row of each timestamp: keep="first".
DropDuplicatedKeepFirst(rows) ==
    LET keep == {i \in 1..Len(rows) :
                    \A j \in 1..(i - 1) : rows[j].time # rows[i].time}
        F[i \in 0..Len(rows)] ==
            IF i = 0 THEN <<>>
            ELSE IF i \in keep THEN Append(F[i - 1], rows[i]) ELSE F[i - 1]
    IN  F[Len(rows)]

\* combined[~combined.index.duplicated(keep="last")]
DropDuplicatedKeepLast(rows) ==
    LET keep == {i \in 1..Len(rows) :
                    \A j \in (i + 1)..Len(rows) : rows[j].time # rows[i].time}
        F[i \in 0..Len(rows)] ==
            IF i = 0 THEN <<>>
            ELSE IF i \in keep THEN Append(F[i - 1], rows[i]) ELSE F[i - 1]
    IN  F[Len(rows)]

\* The parts the chunk loop appends: the non-None results, in chunk order.
ChunkParts(unit, field, cks, interval) ==
    LET F[i \in 0..Len(cks)] ==
            IF i = 0 THEN <<>>
            ELSE LET part == Query(unit, field, cks[i][1], cks[i][2], interval)
                 IN  IF part.none THEN F[i - 1] ELSE Append(F[i - 1], part.rows)
    IN  F[Len(cks)]

QueryChunked(unit, field, s, e, interval) ==
    LET cks == ChunkTimeRanges(s, e, interval)
    IN  IF Len(cks) <= 1 THEN Query(unit, field, s, e, interval)
        ELSE LET series == ChunkParts(unit, field, cks, interval)
             IN  IF series = <<>> THEN None
                 ELSE Series(DropDuplicatedKeepLast(SortIndex(Concat(series))))

\* The queries _query_chunked issues, in order.
QueriesOfChunked(unit, field, s, e, interval) ==
    LET cks == ChunkTimeRanges(s, e, interval)
    IN  IF Len(cks) <= 1 THEN << <<unit, field, s, e, interval>> >>
        ELSE [i \in 1..Len(cks) |-> <<unit, field, cks[i][1], cks[i][2], interval>>]

----------------------------------------------------------------------------
(* Auto-detection *)

Range(seq) == {seq[i] : i \in 1..Len(seq)}

\* _get_all_field_keys: the declared fields, [] when the request fails or has no series.
GetAllFieldKeys ==
    IF fieldResp.kind = "series" THEN fieldResp.fields ELSE <<>>

\* _probe_each_field: a field is kept when its single-row probe returns a
\* non-null value; a non-200 status skips the field; an exception ends the loop
\* and returns what was collected so far.
ProbeEachField(unit, fields) ==
    LET F[i \in 0..Len(fields)] ==
            IF i = 0 THEN [out |-> <<>>, stopped |-> FALSE]
            ELSE LET prev == F[i - 1]
                     kind == probeResp[unit][fields[i]]
                 IN  IF prev.stopped THEN prev
                     ELSE IF kind = "exception" THEN [prev EXCEPT !.stopped = TRUE]
                     ELSE IF kind = "value"
                          THEN [prev EXCEPT !.out = Append(prev.out, fields[i])]
                     ELSE prev
    IN  F[Len(fields)].out

\* _get_fields_with_data_for_unit: the columns of the bulk sample, in response
\* order, that are declared fields with a non-null cell; the per-field probes
\* when the bulk request fails, has no rows, or shows no such column.
GetFieldsWithDataForUnit(unit, all_fields) ==
    LET b == bulkResp[unit]
        HasData(c) == /\ c \notin {"time", "unit"}
                      /\ c \in Range(all_fields)
                      /\ c \in b.nonnull
        out == SelectSeq(b.cols, HasData)
    IN  IF b.kind # "rows" THEN ProbeEachField(unit, all_fields)
        ELSE IF out # <<>> THEN out
        ELSE ProbeEachField(unit, all_fields)

\* col_name = field if field not in ("value_f", "value_b", "value_i") else unit
ColName(unit, field) ==
    IF field \notin {"value_f", "value_b", "value_i"} THEN field ELSE unit

\* The work items of one unit.
ItemsOfUnit(unit, all_fields) ==
    LET populated == GetFieldsWithDataForUnit(unit, all_fields)
    IN  [k \in 1..Len(populated) |-> <<ColName(unit, populated[k]), unit, populated[k]>>]

\* _auto_detect
AutoDetect ==
    IF tagResp.kind # "series" THEN <<>>
    ELSE LET units == tagResp.units
             keys == GetAllFieldKeys
             all_fields == IF keys = <<>> THEN <<"value_f", "value_b", "value_i">> ELSE keys
             F[i \in 0..Len(units)] ==
                 IF i = 0 THEN <<>> ELSE F[i - 1] \o ItemsOfUnit(units[i], all_fields)
         IN  F[Len(units)]

\* The fields all_fields holds in _auto_detect.
DeclaredFields ==
    IF GetAllFieldKeys = <<>> THEN <<"value_f", "value_b", "value_i">> ELSE GetAllFieldKeys

\* The requests _probe_each_field sends: one per field, in order, up to and
\* including the first one that raises.
ProbesSent(unit, fields) ==
    LET raising == {i \in 1..Len(fields) : probeResp[unit][fields[i]] = "exception"}
        n == IF raising = {} THEN Len(fields)
             ELSE CHOOSE i \in raising : \A j \in raising : i <= j
    IN  [i \in 1..n |-> fields[i]]

\* _get_fields_with_data_for_unit goes on to _probe_each_field.
FallsBackToProbes(unit, all_fields) ==
    LET b == bulkResp[unit]
    IN  \/ b.kind # "rows"
        \/ \A c \in Range(b.cols) :
               c \in {"time", "unit"} \/ c \notin Range(all_fields) \/ c \notin b.nonnull

\* A request of the detection, as logged.
DetectEvent(kind, unit, field) ==
    [kind |-> kind, item |-> 0, total |-> 0, name |-> "", unit |-> unit,
     field |-> field, cs |-> 0, ce |-> 0, interval |-> "", ok |-> FALSE, values |-> 0]

\* The requests of _get_fields_with_data_for_unit: the bulk sample, then the probes.
RequestsOfUnit(unit, all_fields) ==
    <<DetectEvent("bulk", unit, "")>>
        \o (IF FallsBackToProbes(unit, all_fields)
            THEN LET sent == ProbesSent(unit, all_fields)
                 IN  [i \in 1..Len(sent) |-> DetectEvent("probe", unit, sent[i])]
            ELSE <<>>)

\* The requests of _auto_detect, in order.
DetectRequests ==
    <<DetectEvent("tags", "", "")>>
        \o (IF tagResp.kind # "series" THEN <<>>
            ELSE LET units == tagResp.units
                     F[i \in 0..Len(units)] ==
                         IF i = 0 THEN <<DetectEvent("fieldkeys", "", "")>>
                         ELSE F[i - 1] \o RequestsOfUnit(units[i], DeclaredFields)
                 IN  F[Len(units)])

----------------------------------------------------------------------------
(* The state before run_retrieval starts, and an endpoint with nothing to detect. *)

NoResult == [filepath |-> FALSE,
             summary |-> [successful |-> 0, failed |-> 0, total_points |-> 0]]

NotWritten == [written |-> FALSE, columns |-> <<>>, ok |-> <<>>, fail |-> <<>>,
               mapping |-> <<>>, total_points |-> 0]

RunNotStarted ==
    /\ sensors_and_fields = <<>>
    /\ done = 0
    /\ all_data = <<>>
    /\ successful = <<>>
    /\ failed = <<>>
    /\ sensor_mapping = <<>>
    /\ failed_mapping = <<>>
    /\ events = <<>>
    /\ csv = NotWritten
    /\ metadata = NotWritten
    /\ result = NoResult

NothingToDetect ==
    /\ tagResp = [kind |-> "noseries", units |-> <<>>]
    /\ fieldResp = [kind |-> "error", fields |-> <<>>]
    /\ bulkResp = [u \in Units |-> [kind |-> "noseries", cols |-> <<>>, nonnull |-> {}]]
    /\ probeResp = [u \in Units |-> [f \in AllFieldNames |-> "noseries"]]

----------------------------------------------------------------------------
(* Specification of the chunker alone: any start, end and resolution. *)

InitChunk ==
    /\ start_str \in 0..MaxStartTicks
    /\ end_str \in 0..(MaxStartTicks + MaxRangeDays * Day)
    /\ resolution \in Resolutions
    /\ pc = "call"
    /\ chunks = <<>>
    /\ chunk_t = 0
    /\ store = [p \in Pairs |-> <<>>]
    /\ faults = {}
    /\ fetched = None
    /\ NothingToDetect
    /\ RunNotStarted

CallChunk ==
    /\ pc = "call"
    /\ chunks' = ChunkTimeRanges(start_str, end_str, resolution)
    /\ pc' = "returned"
    /\ UNCHANGED <<configVars, endpointVars, runVars, chunk_t, fetched>>

NextChunk == CallChunk

SpecChunk == InitChunk /\ [][NextChunk]_vars

----------------------------------------------------------------------------
(* Specification of the chunker statement by statement: the early returns, the *)
(* while loop one iteration at a time, the final return.                       *)

InitChunkLoop ==
    /\ start_str \in 0..MaxStartTicks
    /\ end_str \in 0..(MaxStartTicks + MaxRangeDays * Day)
    /\ resolution \in Resolutions
    /\ pc = "enter"
    /\ chunks = <<>>
    /\ chunk_t = 0
    /\ store = [p \in Pairs |-> <<>>]
    /\ faults = {}
    /\ fetched = None
    /\ NothingToDetect
    /\ RunNotStarted

\* if start >= end: return [(start_str, end_str)]; the same for a resolution
\* that is not chunked.
ChunkReturnSingle ==
    /\ pc = "enter"
    /\ \/ ToTimestamp(start_str) >= ToTimestamp(end_str)
       \/ ChunkDays(resolution) = 0
    /\ chunks' = << <<start_str, end_str>> >>
    /\ pc' = "returned"
    /\ UNCHANGED <<configVars, endpointVars, runVars, chunk_t, fetched>>

\* chunks = []; t = start
ChunkEnterLoop ==
    /\ pc = "enter"
    /\ ToTimestamp(start_str) < ToTimestamp(end_str)
    /\ ChunkDays(resolution) # 0
    /\ chunks' = <<>>
    /\ chunk_t' = ToTimestamp(start_str)
    /\ pc' = "loop"
    /\ UNCHANGED <<configVars, endpointVars, runVars, fetched>>

\* One iteration of the while loop.
ChunkIterate ==
    /\ pc = "loop"
    /\ chunk_t < ToTimestamp(end_str)
    /\ LET chunk_end == Min(chunk_t + ChunkDays(resolution) * Day, ToTimestamp(end_str))
       IN  /\ chunks' = Append(chunks, <<Strftime(chunk_t), Strftime(chunk_end)>>)
           /\ chunk_t' = chunk_end
    /\ UNCHANGED <<configVars, endpointVars, runVars, pc, fetched>>

\* The loop condition fails: return chunks if chunks else [(start_str, end_str)].
ChunkLoopExit ==
    /\ pc = "loop"
    /\ ~(chunk_t < ToTimestamp(end_str))
    /\ chunks' = IF chunks # <<>> THEN chunks ELSE << <<start_str, end_str>> >>
    /\ pc' = "returned"
    /\ UNCHANGED <<configVars, endpointVars, runVars, chunk_t, fetched>>

NextChunkLoop ==
    \/ ChunkReturnSingle
    \/ ChunkEnterLoop
    \/ ChunkIterate
    \/ ChunkLoopExit

\* A call runs on: the next statement of the function is always taken.
SpecChunkLoop == InitChunkLoop /\ [][NextChunkLoop]_vars /\ WF_vars(NextChunkLoop)

----------------------------------------------------------------------------
(* Specification of one fetch: _query_chunked for one unit and field, over any *)
(* stored points around the first chunk boundary.                             *)

FetchUnit == "u1"
FetchField == "value_f"

\* The resolutions the scaled day can carry: an unchunked one, or a chunked one
\* whose bucket width divides the day, as every bucket width divides the real day.
FetchResolutions ==
    {r \in Resolutions : ChunkDays(r) = 0 \/ Day % IntervalTicks(r) = 0}

\* Candidate times of stored points: the first second of the range, and the
\* seconds around the end of the first 7-day chunk.
FetchTimes == (0..Sec) \cup ((7 * Day - Sec)..(7 * Day + 2 * Sec))

\* A point's value tells the points apart.
PointsAt(T) == [t \in T |-> t + 1]

FetchQueries ==
    LET qs == QueriesOfChunked(FetchUnit, FetchField, start_str, end_str, resolution)
    IN  {<<qs[i][1], qs[i][2], qs[i][3], qs[i][4]>> : i \in 1..Len(qs)}

InitFetch ==
    /\ start_str \in 0..MaxStartTicks
    /\ end_str \in (7 * Day - Sec)..(7 * Day + 2 * Sec + 1)
    /\ resolution \in FetchResolutions
    /\ \E T \in SUBSET FetchTimes :
          /\ Cardinality(T) <= MaxPoints
          /\ store = [p \in Pairs |->
                        IF p = <<FetchUnit, FetchField>> THEN PointsAt(T) ELSE <<>>]
    /\ faults \in {F \in SUBSET FetchQueries : Cardinality(F) <= MaxFaults}
    /\ pc = "call"
    /\ chunks = <<>>
    /\ chunk_t = 0
    /\ fetched = None
    /\ NothingToDetect
    /\ RunNotStarted

CallFetch ==
    /\ pc = "call"
    /\ chunks' = ChunkTimeRanges(start_str, end_str, resolution)
    /\ fetched' = QueryChunked(FetchUnit, FetchField, start_str, end_str, resolution)
    /\ pc' = "returned"
    /\ UNCHANGED <<configVars, endpointVars, runVars, chunk_t>>

NextFetch == CallFetch

SpecFetch == InitFetch /\ [][NextFetch]_vars

----------------------------------------------------------------------------
(* run_retrieval *)

FALLBACK_FIELDS == <<"value_i", "value_b", "value_f", "value">>

\* An entry of the event log: a time-series query issued while work item `item`
\* was processed, or the progress callback cb(item, total, name, status).
QueryEvent(i, q) ==
    [kind |-> "query", item |-> i, total |-> 0, name |-> "", unit |-> q[1],
     field |-> q[2], cs |-> q[3], ce |-> q[4], interval |-> q[5], ok |-> FALSE,
     values |-> 0]

\* The callback with the index counted from 0.
CbEventFromZero(i, total, name, ok, values) ==
    [kind |-> "cb", item |-> i - 1, total |-> total, name |-> name, unit |-> "",
     field |-> "", cs |-> 0, ce |-> 0, interval |-> "", ok |-> ok, values |-> values]

CbEvent(i, total, name, ok, values) ==
    [kind |-> "cb", item |-> i, total |-> total, name |-> name, unit |-> "",
     field |-> "", cs |-> 0, ce |-> 0, interval |-> "", ok |-> ok, values |-> values]

QueryEvents(i, qs) == [k \in 1..Len(qs) |-> QueryEvent(i, qs[k])]

\* The fallback loop: for alt in FALLBACK_FIELDS, skipping alt == field, until one
\* yields data.  `qs` collects the queries issued.
RECURSIVE TryFallbacks(_, _, _, _)
TryFallbacks(unit, field, k, qs) ==
    IF k > Len(FALLBACK_FIELDS) THEN [data |-> None, field |-> field, queries |-> qs]
    ELSE LET alt == FALLBACK_FIELDS[k]
         IN  IF alt = field THEN TryFallbacks(unit, field, k + 1, qs)
             ELSE LET data == QueryChunked(unit, alt, start_str, end_str, resolution)
                      qs2 == qs \o QueriesOfChunked(unit, alt, start_str, end_str,
                                                    resolution)
                  IN  IF ~data.none THEN [data |-> data, field |-> alt, queries |-> qs2]
                      ELSE TryFallbacks(unit, field, k + 1, qs2)

\* Lines 108-116: the primary field, then the fallbacks when it yields None.
FetchWithFallback(unit, field) ==
    LET data == QueryChunked(unit, field, start_str, end_str, resolution)
        qs == QueriesOfChunked(unit, field, start_str, end_str, resolution)
    IN  IF data.none THEN TryFallbacks(unit, field, 1, qs)
        ELSE [data |-> data, field |-> field, queries |-> qs]

\* d[k] = v
Put(d, k, v) == [x \in (DOMAIN d) \cup {k} |-> IF x = k THEN v ELSE d[x]]

\* data.notna().sum()
NotNaCount(rows) == Cardinality({j \in 1..Len(rows) : ~rows[j].null})

\* pd.DataFrame(all_data).sort_index(): one column per key, indexed by the union
\* of the columns' times; a column has null where it has no row.
IndexOf(data) == UNION {{data[c][j].time : j \in 1..Len(data[c])} : c \in DOMAIN data}

DataFrame(data) ==
    [c \in DOMAIN data |->
        [t \in IndexOf(data) |->
            IF \E j \in 1..Len(data[c]) : data[c][j].time = t
            THEN data[c][CHOOSE j \in 1..Len(data[c]) : data[c][j].time = t]
            ELSE NullRow(t)]]

\* Detection finds nothing, and the run is counted as one failed item.
RunNoSensorsCountsFailure ==
    /\ pc = "start"
    /\ AutoDetect = <<>>
    /\ sensors_and_fields' = AutoDetect
    /\ events' = Append(events, CbEvent(0, 1, "unit_name", FALSE, 0))
    /\ result' = [filepath |-> FALSE,
                  summary |-> [successful |-> 0, failed |-> 1, total_points |-> 0]]
    /\ pc' = "done"
    /\ UNCHANGED <<configVars, endpointVars, chunks, chunk_t, fetched, done, all_data, successful,
                   failed, sensor_mapping, failed_mapping, csv, metadata>>

\* Lines 90-93: detection finds nothing.
RunNoSensors ==
    /\ pc = "start"
    /\ AutoDetect = <<>>
    /\ sensors_and_fields' = AutoDetect
    /\ events' = Append(events, CbEvent(0, 1, "unit_name", FALSE, 0))
    /\ result' = [filepath |-> FALSE,
                  summary |-> [successful |-> 0, failed |-> 0, total_points |-> 0]]
    /\ pc' = "done"
    /\ UNCHANGED <<configVars, endpointVars, chunks, chunk_t, fetched, done, all_data, successful,
                   failed, sensor_mapping, failed_mapping, csv, metadata>>

\* Lines 90-103: detection finds work items.
RunDetected ==
    /\ pc = "start"
    /\ AutoDetect # <<>>
    /\ sensors_and_fields' = AutoDetect
    /\ pc' = "loop"
    /\ UNCHANGED <<configVars, endpointVars, chunks, chunk_t, fetched, done, all_data, successful,
                   failed, sensor_mapping, failed_mapping, events, csv, metadata, result>>

\* Lines 106-127: one iteration of the loop over the work items.
ProcessItem ==
    /\ pc = "loop"
    /\ done < Len(sensors_and_fields)
    /\ LET i == done + 1
           total == Len(sensors_and_fields)
           col_name == sensors_and_fields[i][1]
           unit == sensors_and_fields[i][2]
           got == FetchWithFallback(unit, sensors_and_fields[i][3])
           field == got.field
       IN  /\ done' = i
           /\ IF ~got.data.none
              THEN /\ all_data' = Put(all_data, col_name, got.data.rows)
                   /\ successful' = Append(successful, col_name)
                   /\ sensor_mapping' = Put(sensor_mapping, col_name, <<unit, field>>)
                   /\ events' = events \o QueryEvents(i, got.queries)
                                 \o <<CbEvent(i, total, col_name, TRUE,
                                              NotNaCount(got.data.rows))>>
                   /\ UNCHANGED <<failed, failed_mapping>>
              ELSE /\ failed' = Append(failed, col_name)
                   /\ failed_mapping' = Put(failed_mapping, col_name, <<unit, field>>)
                   /\ events' = events \o QueryEvents(i, got.queries)
                                 \o <<CbEvent(i, total, col_name, FALSE, 0)>>
                   /\ UNCHANGED <<all_data, successful, sensor_mapping>>
    /\ UNCHANGED <<configVars, endpointVars, chunks, chunk_t, fetched, sensors_and_fields, pc,
                   csv, metadata, result>>

\* No item produced data, and the summary is the zero summary of line 93.
FinishNoDataZeroSummary ==
    /\ pc = "loop"
    /\ done = Len(sensors_and_fields)
    /\ DOMAIN all_data = {}
    /\ result' = [filepath |-> FALSE,
                  summary |-> [successful |-> 0, failed |-> 0, total_points |-> 0]]
    /\ pc' = "done"
    /\ UNCHANGED <<configVars, endpointVars, chunks, chunk_t, fetched, sensors_and_fields, done,
                   all_data, successful, failed, sensor_mapping, failed_mapping, events,
                   csv, metadata>>

\* Lines 129-130: no item produced data.
FinishNoData ==
    /\ pc = "loop"
    /\ done = Len(sensors_and_fields)
    /\ DOMAIN all_data = {}
    /\ result' = [filepath |-> FALSE,
                  summary |-> [successful |-> 0, failed |-> Len(failed),
                               total_points |-> 0]]
    /\ pc' = "done"
    /\ UNCHANGED <<configVars, endpointVars, chunks, chunk_t, fetched, sensors_and_fields, done,
                   all_data, successful, failed, sensor_mapping, failed_mapping, events,
                   csv, metadata>>

\* _write_metadata, when the file can be written: the successful and failed
\* lists, the failed items' unit and field, the field mapping of each column.
MetadataText(df) ==
    [written |-> TRUE, columns |-> <<>>, ok |-> successful,
     fail |-> [k \in 1..Len(failed) |-> <<failed[k], failed_mapping[failed[k]]>>],
     mapping |-> [k \in 1..Len(successful) |->
                    <<successful[k], sensor_mapping[successful[k]]>>],
     total_points |-> Cardinality(IndexOf(all_data))]

\* Lines 132-146: the table is built and written.  df.to_csv may raise, and the
\* fault reaches the caller; a failure to write the sidecar is swallowed.
FinishWrite ==
    /\ pc = "loop"
    /\ done = Len(sensors_and_fields)
    /\ DOMAIN all_data # {}
    /\ LET df == DataFrame(all_data)
       IN  \E csv_ok \in BOOLEAN, meta_ok \in BOOLEAN :
              IF ~csv_ok
              THEN /\ pc' = "raised"
                   /\ UNCHANGED <<csv, metadata, result>>
              ELSE /\ csv' = [NotWritten EXCEPT !.written = TRUE, !.columns = df]
                   /\ metadata' = IF meta_ok THEN MetadataText(df) ELSE metadata
                   /\ result' = [filepath |-> TRUE,
                                 summary |-> [successful |-> Len(successful),
                                              failed |-> Len(failed),
                                              total_points |-> Cardinality(IndexOf(all_data))]]
                   /\ pc' = "done"
    /\ UNCHANGED <<configVars, endpointVars, chunks, chunk_t, fetched, sensors_and_fields, done,
                   all_data, successful, failed, sensor_mapping, failed_mapping, events>>

----------------------------------------------------------------------------
(* Specification of one run of run_retrieval, against any endpoint of two units *)
(* and two stored fields.                                                       *)

RunResolutions == {"1s", "5m"}

\* A stored series: one point in the first week and one at the end of the range,
\* its value telling the (unit, field) pairs apart.
PairCode(p) ==
    10 * (IF p[1] = "u1" THEN 1 ELSE 2) + (IF p[2] = "temp" THEN 1 ELSE 2)

RunData(p) == [t \in {Day, RunRangeDays * Day} |-> PairCode(p)]

\* The queries a fault can hit: those of the pairs that hold data.
RunQueries ==
    LET cks == ChunkTimeRanges(start_str, end_str, resolution)
    IN  {<<p[1], p[2], cks[i][1], cks[i][2]>> :
            p \in {q \in Pairs : store[q] # <<>>}, i \in 1..Len(cks)}

UnitSeqs == {<<>>, <<"u1">>, <<"u2">>, <<"u1", "u2">>, <<"u2", "u1">>}

TagResponses ==
    {[kind |-> k, units |-> <<>>] : k \in {"error", "noseries"}}
        \cup {[kind |-> "series", units |-> us] : us \in UnitSeqs}

FieldResponses ==
    {[kind |-> "error", fields |-> <<>>],
     [kind |-> "series", fields |-> <<"temp", "value_f">>]}

\* A bulk sample with rows: the columns in the endpoint's (alphabetical) order.
BulkRows(nonnull) ==
    [kind |-> "rows", cols |-> <<"time", "temp", "unit", "value_f">>, nonnull |-> nonnull]

InitRun ==
    /\ start_str = 0
    /\ end_str = RunRangeDays * Day
    /\ resolution \in RunResolutions
    /\ \E S \in SUBSET Pairs :
          store = [p \in Pairs |-> IF p \in S THEN RunData(p) ELSE <<>>]
    /\ faults \in {F \in SUBSET RunQueries : Cardinality(F) <= MaxFaults}
    /\ tagResp \in TagResponses
    /\ fieldResp \in FieldResponses
    /\ \E pop \in [Units -> SUBSET Fields] :
          /\ \A u \in Units : u \notin Range(tagResp.units) => pop[u] = {}
          /\ bulkResp = [u \in Units |-> BulkRows(pop[u])]
    /\ probeResp = [u \in Units |-> [f \in AllFieldNames |-> "noseries"]]
    /\ pc = "start"
    /\ chunks = <<>>
    /\ chunk_t = 0
    /\ fetched = None
    /\ RunNotStarted

NextRun ==
    \/ RunNoSensors
    \/ RunDetected
    \/ ProcessItem
    \/ FinishNoData
    \/ FinishWrite

SpecRun == InitRun /\ [][NextRun]_vars

----------------------------------------------------------------------------
(* C1 *)

\* Number of returned sub-ranges whose queried range (both ends included) holds t.
Covering(t) == {i \in 1..Len(chunks) : InQueriedRange(t, chunks[i])}

WholeSecond(t) == t % Sec = 0

\* The range is split: start < end and the resolution is one of the chunked ones.
IsSplit == start_str < end_str /\ resolution \in {"1s", "5s", "15s", "1m"}

\* C1 as claimed: the sub-ranges returned by _chunk_time_ranges are ascending,
\* each begins where the previous one ends, the first begins at start, the last
\* ends at end, and every instant of the requested range belongs to exactly one
\* sub-range as it is queried.  Stated for start and end on whole seconds, where
\* the formatting of the boundaries loses nothing.
C1_ExactlyOneSubRange ==
    (pc = "returned" /\ WholeSecond(start_str) /\ WholeSecond(end_str)) =>
        /\ \A i \in 1..(Len(chunks) - 1) :
                /\ chunks[i][2] = chunks[i + 1][1]
                /\ chunks[i][1] <= chunks[i + 1][1]
        /\ chunks[1][1] = start_str
        /\ chunks[Len(chunks)][2] = end_str
        /\ \A t \in start_str..end_str : Cardinality(Covering(t)) = 1

\* C1 as amended: the sub-ranges are ascending and each begins where the
\* previous one ends; a split range begins at start and ends at end, both cut to
\* the whole second, and an unsplit one is the input range unchanged; every
\* instant from the first begin to the last end belongs to at least one queried
\* sub-range, and to two exactly when it is the boundary two consecutive
\* sub-ranges share, never to more.
C1_ContiguousSharedBoundaries ==
    pc = "returned" =>
        LET n == Len(chunks)
        IN  /\ n >= 1
            /\ \A i \in 1..(n - 1) :
                    /\ chunks[i][2] = chunks[i + 1][1]
                    /\ chunks[i][1] <= chunks[i + 1][1]
            /\ start_str <= end_str => \A i \in 1..n : chunks[i][1] <= chunks[i][2]
            /\ chunks[1][1] = IF IsSplit THEN start_str - (start_str % Sec) ELSE start_str
            /\ chunks[n][2] = IF IsSplit THEN end_str - (end_str % Sec) ELSE end_str
            /\ \A t \in chunks[1][1]..chunks[n][2] :
                    /\ Cardinality(Covering(t)) \in {1, 2}
                    /\ Cardinality(Covering(t)) = 2
                           <=> \E i \in 1..(n - 1) : t = chunks[i][2]

\* A range split into three or more sub-ranges, with a start between two seconds.
C1_Witness ==
    /\ pc = "returned"
    /\ Len(chunks) >= 3
    /\ ~WholeSecond(start_str)
    /\ ~WholeSecond(end_str)


----------------------------------------------------------------------------
(* C2 *)

\* C2 as claimed: with no transport fault, the series _query_chunked returns is
\* the series one unchunked _query over the full range returns (the rows of a
\* boundary timestamp already reduced to the later chunk's by the fetch).  Stated
\* for start and end on whole seconds, where the chunk boundaries lose nothing.
C2_ChunkedEqualsUnchunked ==
    (pc = "returned" /\ faults = {} /\ WholeSecond(start_str) /\ WholeSecond(end_str)) =>
        fetched = Query(FetchUnit, FetchField, start_str, end_str, resolution)

----------------------------------------------------------------------------
(* Reading a run off its event log *)

Finished == pc \in {"done", "raised"}

Total == Len(sensors_and_fields)

QueryPositions(i) == {p \in 1..Len(events) : events[p].kind = "query" /\ events[p].item = i}

CbPositions == {p \in 1..Len(events) : events[p].kind = "cb"}

\* What the endpoint answered to the query logged at position p.
AnswerAt(p) ==
    Query(events[p].unit, events[p].field, events[p].cs, events[p].ce, events[p].interval)

\* Work item i produced data: one of its queries was answered with a series.
ProducedData(i) == \E p \in QueryPositions(i) : ~AnswerAt(p).none

\* The field of the last query of work item i: the one its data came from.
FieldUsed(i) == events[SetMax(QueryPositions(i))].field

\* Work item i was reported successful.
ReportedOk(i) == \E p \in CbPositions : events[p].item = i /\ events[p].ok

UniqueColNames ==
    \A a, b \in 1..Total : a # b => sensors_and_fields[a][1] # sensors_and_fields[b][1]

----------------------------------------------------------------------------
(* C3 *)

\* C3 as claimed: no two work items of the list _auto_detect returns have the
\* same output column name.
C3_UniqueOutputColumns == UniqueColNames

----------------------------------------------------------------------------
(* C4 *)

\* The column holds the whole series of a unit's field: every point stored in
\* the requested range shows as a value in the row of its bucket.
HoldsWholeSeries(column, unit, field) ==
    LET data == StoreData(unit, field)
        W == IntervalTicks(resolution)
    IN  \A t \in DOMAIN data :
            (start_str <= t /\ t <= end_str) =>
                /\ t - (t % W) \in DOMAIN column
                /\ ~column[t - (t % W)].null

\* C4 as claimed: in the table a run emits, every work item is either counted
\* successful with a column holding its whole series over the requested range
\* (the data of every chunk), or counted failed with no column.  Stated for runs
\* whose column names are all different, so that no column is another item's.
C4_WholeSeriesOrNoColumn ==
    (pc = "done" /\ csv.written /\ UniqueColNames) =>
        \A i \in 1..Total :
            LET col_name == sensors_and_fields[i][1]
                unit == sensors_and_fields[i][2]
            IN  IF ReportedOk(i)
                THEN /\ col_name \in DOMAIN csv.columns
                     /\ HoldsWholeSeries(csv.columns[col_name], unit, FieldUsed(i))
                ELSE col_name \notin DOMAIN csv.columns

----------------------------------------------------------------------------
(* C5 *)

\* Work item i fell back: its primary field yielded no data and a fallback did.
FellBack(i) == ReportedOk(i) /\ FieldUsed(i) # sensors_and_fields[i][3]

\* C5 as claimed: when a work item's primary field yields no data and a fallback
\* field does, the item is counted successful, its column holds the fallback
\* field's series, and the provenance recorded for the column, in sensor_mapping
\* and in the sidecar, names the fallback field.
C5_FallbackProvenance ==
    (pc = "done" /\ csv.written) =>
        \A i \in 1..Total :
            FellBack(i) =>
                LET col_name == sensors_and_fields[i][1]
                    unit == sensors_and_fields[i][2]
                    fetch == QueryChunked(unit, FieldUsed(i), start_str, end_str, resolution)
                IN  /\ col_name \in Range(successful)
                    /\ all_data[col_name] = fetch.rows
                    /\ sensor_mapping[col_name] = <<unit, FieldUsed(i)>>
                    /\ metadata.written =>
                           \A k \in 1..Len(metadata.mapping) :
                               metadata.mapping[k][1] = col_name =>
                                   metadata.mapping[k][2] = <<unit, FieldUsed(i)>>

----------------------------------------------------------------------------
(* C6 *)

\* C6 as claimed: when a table is emitted, its number of data columns is the
\* summary's successful count, and successful + failed is the number of work items.
C6_ColumnsMatchSummary ==
    (pc = "done" /\ csv.written) =>
        /\ Cardinality(DOMAIN csv.columns) = result.summary.successful
        /\ result.summary.successful + result.summary.failed = Total

----------------------------------------------------------------------------
(* C9 *)

SameParameters(e, f) ==
    /\ e.unit = f.unit
    /\ e.field = f.field
    /\ e.cs = f.cs
    /\ e.ce = f.ce
    /\ e.interval = f.interval

\* C9 as claimed: within one run no time-series query is issued twice with the
\* same unit, field, time range and resolution.
C9_NoQueryRepeated ==
    \A p, q \in 1..Len(events) :
        (p < q /\ events[p].kind = "query" /\ events[q].kind = "query")
            => ~SameParameters(events[p], events[q])

----------------------------------------------------------------------------
(* C7 *)

\* The work list is non-empty and the run ended with no item having produced data.
TotalFailure ==
    /\ Finished
    /\ Total > 0
    /\ \A i \in 1..Total : ~ProducedData(i)

\* C7 as claimed: when the work list is non-empty and no item produces data,
\* run_retrieval raises no fault, writes no CSV and returns an absent file path
\* with a summary whose counts are all zero.
C7_ZeroValuedSummary ==
    TotalFailure =>
        /\ pc = "done"
        /\ ~csv.written
        /\ ~result.filepath
        /\ result.summary = [successful |-> 0, failed |-> 0, total_points |-> 0]

\* C7 as amended: when the work list is non-empty and no item produces data,
\* run_retrieval raises no fault, writes no CSV and returns an absent file path
\* with a summary whose successful and total_points are zero and whose failed
\* is the number of work items.
C7_AbsentResultCountsFailed ==
    TotalFailure =>
        /\ pc = "done"
        /\ ~csv.written
        /\ ~result.filepath
        /\ result.summary = [successful |-> 0, failed |-> Total, total_points |-> 0]

\* Two work items, neither producing data although the endpoint holds data for
\* one of them (its query failed).
C7_Witness ==
    /\ TotalFailure
    /\ Total >= 2
    /\ faults # {}
    /\ \E i \in 1..Total :
          StoreData(sensors_and_fields[i][2], sensors_and_fields[i][3]) # <<>>

----------------------------------------------------------------------------
(* C8 *)

\* Unit discovery returns no units: a failed or unparsable response, a response
\* without a series, or an empty list.
NoUnitsDiscovered == tagResp.kind # "series" \/ tagResp.units = <<>>

\* C8: when unit discovery returns no units, run_retrieval issues no time-series
\* query, writes no CSV and no sidecar, raises nothing, and returns an absent
\* file path with summary {successful: 0, failed: 0, total_points: 0}.
C8_NoUnitsNoQueryNoFiles ==
    NoUnitsDiscovered =>
        /\ \A p \in 1..Len(events) : events[p].kind # "query"
        /\ ~csv.written
        /\ ~metadata.written
        /\ pc \in {"start", "done"}
        /\ pc = "done" =>
              /\ ~result.filepath
              /\ result.summary = [successful |-> 0, failed |-> 0, total_points |-> 0]
              /\ sensors_and_fields = <<>>

\* The run has returned after a failed unit discovery, against an endpoint that
\* holds data.
C8_Witness ==
    /\ pc = "done"
    /\ tagResp.kind = "error"
    /\ \E p \in Pairs : store[p] # <<>>

----------------------------------------------------------------------------
(* C10 *)

\* C10: with a non-empty work list, the progress callback is invoked once per
\* processed work item, after all the queries of that item and before any query
\* of the next, with current index 1, 2, ... in work-list order, total the number
\* of work items, the item's column name, and a status that reports success
\* exactly when the item produced data; a finished run has reported every item.
C10_OneCallbackPerItemInOrder ==
    Total > 0 =>
        /\ Cardinality(CbPositions) = done
        /\ Finished => done = Total
        /\ \A p \in CbPositions :
               LET i == events[p].item
               IN  /\ i \in 1..done
                   /\ events[p].total = Total
                   /\ events[p].name = sensors_and_fields[i][1]
                   /\ events[p].ok <=> ProducedData(i)
                   /\ QueryPositions(i) # {}
        /\ \A p, q \in 1..Len(events) :
               p < q => /\ events[p].item <= events[q].item
                        /\ events[p].kind = "cb" => events[p].item < events[q].item

\* A finished run of two or more items, one reported successful after a
\* fallback and one reported without data.
C10_Witness ==
    /\ pc = "done"
    /\ Total >= 2
    /\ \E i \in 1..Total : FellBack(i)
    /\ \E i \in 1..Total : ~ReportedOk(i)

----------------------------------------------------------------------------
(* C11 *)

\* What the endpoint answered for chunk k of the fetch.
PartOf(k) == Query(FetchUnit, FetchField, chunks[k][1], chunks[k][2], resolution)

\* The chunks whose answer has a row at time t.
ChunksWithRowAt(t) ==
    {k \in 1..Len(chunks) :
        \E j \in 1..Len(PartOf(k).rows) : PartOf(k).rows[j].time = t}

RowAt(rows, t) == rows[CHOOSE j \in 1..Len(rows) : rows[j].time = t]

\* The timestamps two chunks of the fetch both returned a row for.
SharedTimes ==
    {t \in UNION {{PartOf(k).rows[j].time : j \in 1..Len(PartOf(k).rows)} :
                      k \in 1..Len(chunks)} :
        Cardinality(ChunksWithRowAt(t)) >= 2}

\* C11: when two chunks of one fetch both return a row for the same timestamp,
\* the series _query_chunked returns has that timestamp exactly once, with the
\* value the later chunk returned.
C11_BoundaryKeepsLaterChunk ==
    (pc = "returned" /\ Len(chunks) >= 2) =>
        \A t \in SharedTimes :
            /\ ~fetched.none
            /\ Cardinality({j \in 1..Len(fetched.rows) : fetched.rows[j].time = t}) = 1
            /\ RowAt(fetched.rows, t) = RowAt(PartOf(SetMax(ChunksWithRowAt(t))).rows, t)

\* Two chunks returned different values for the boundary timestamp.
C11_Witness ==
    /\ pc = "returned"
    /\ Len(chunks) >= 2
    /\ \E t \in SharedTimes :
          /\ ~RowAt(PartOf(1).rows, t).null
          /\ ~RowAt(PartOf(2).rows, t).null
          /\ RowAt(PartOf(1).rows, t).value # RowAt(PartOf(2).rows, t).value

----------------------------------------------------------------------------
(* Specification of one auto-detection, against any answers of the endpoint to *)
(* the discovery requests.                                                     *)

\* Declared fields: none (the request fails), two named ones, or one name listed
\* twice (a field the endpoint holds with two types).
DetectFieldResponses ==
    FieldResponses \cup {[kind |-> "series", fields |-> <<"temp", "temp">>]}

BulkResponses ==
    {[kind |-> k, cols |-> <<>>, nonnull |-> {}] : k \in {"error", "noseries"}}
        \cup {BulkRows(nn) : nn \in SUBSET Fields}

ProbeKinds == {"exception", "status", "null", "value"}

\* The answers to one unit's probes: any kind for the fields the store can hold,
\* no series for the other names.
ProbeAnswers ==
    {[f \in AllFieldNames |-> IF f \in Fields THEN g[f] ELSE "noseries"] :
        g \in [Fields -> ProbeKinds]}

InitDetect ==
    /\ tagResp \in TagResponses
    /\ fieldResp \in DetectFieldResponses
    /\ bulkResp \in [Units -> BulkResponses]
    /\ probeResp \in [Units -> ProbeAnswers]
    /\ \A u \in Units \ Range(tagResp.units) :
          /\ bulkResp[u].kind = "noseries"
          /\ \A f \in Fields : probeResp[u][f] = "null"
    /\ start_str = 0
    /\ end_str = 0
    /\ resolution = "1m"
    /\ store = [p \in Pairs |-> <<>>]
    /\ faults = {}
    /\ pc = "start"
    /\ chunks = <<>>
    /\ chunk_t = 0
    /\ fetched = None
    /\ RunNotStarted

\* _auto_detect, with the requests it sends logged.
Detect ==
    /\ pc = "start"
    /\ sensors_and_fields' = AutoDetect
    /\ events' = events \o DetectRequests
    /\ pc' = "detected"
    /\ UNCHANGED <<configVars, endpointVars, chunks, chunk_t, fetched, done, all_data, successful,
                   failed, sensor_mapping, failed_mapping, csv, metadata, result>>

NextDetect == Detect

SpecDetect == InitDetect /\ [][NextDetect]_vars

----------------------------------------------------------------------------
(* C12.  The work list of the auto-detection.                                  *)

\* The units the tag request discovered, in the order of its answer.
DiscoveredUnits == IF tagResp.kind = "series" THEN tagResp.units ELSE <<>>

\* The populated fields the detection found for a unit, in the order found.
PopulatedFields(unit) == GetFieldsWithDataForUnit(unit, DeclaredFields)

UnitOf(item) == item[2]

FieldOf(item) == item[3]

PositionOfUnit(unit) == CHOOSE i \in 1..Len(DiscoveredUnits) : DiscoveredUnits[i] = unit

\* The fields of the work items of one unit, in work-list order.
FieldsListedFor(unit) ==
    LET ofUnit == SelectSeq(sensors_and_fields, LAMBDA item : UnitOf(item) = unit)
    IN  [k \in 1..Len(ofUnit) |-> FieldOf(ofUnit[k])]

\* C12: once _auto_detect has returned, no two work items are for the same
\* (unit, field) pair; the work items of a unit are for exactly its populated
\* fields, in field order; units without a discovery have no item; the items
\* follow the order in which the units were discovered; and an item's column
\* name is the unit's name for a generic placeholder field and the field's
\* name otherwise.
C12_OneItemPerPairInOrder ==
    pc = "detected" =>
        LET items == sensors_and_fields
        IN  /\ \A a, b \in 1..Len(items) :
                   a < b => <<UnitOf(items[a]), FieldOf(items[a])>>
                                # <<UnitOf(items[b]), FieldOf(items[b])>>
            /\ \A a \in 1..Len(items) : UnitOf(items[a]) \in Range(DiscoveredUnits)
            /\ \A u \in Range(DiscoveredUnits) : FieldsListedFor(u) = PopulatedFields(u)
            /\ \A a, b \in 1..Len(items) :
                   a < b => PositionOfUnit(UnitOf(items[a])) <= PositionOfUnit(UnitOf(items[b]))
            /\ \A a \in 1..Len(items) :
                   items[a][1] = IF FieldOf(items[a]) \in {"value_f", "value_b", "value_i"}
                                 THEN UnitOf(items[a])
                                 ELSE FieldOf(items[a])

----------------------------------------------------------------------------
(* C13.  Bulk sample first, per-field probes only when it fails or is empty.   *)

\* The fields the detection probed for a unit, from the request log.
ProbedFields(unit) ==
    {events[p].field : p \in {q \in 1..Len(events) :
                                  events[q].kind = "probe" /\ events[q].unit = unit}}

BulkReturnedRows(unit) == bulkResp[unit].kind = "rows"

\* The declared fields with a non-null cell in the unit's bulk sample.
NonNullInSample(unit) == Range(DeclaredFields) \cap bulkResp[unit].nonnull

\* C13: for every discovered unit, when the bulk sample returned rows (stated
\* for samples that show at least one declared field with a non-null cell) the
\* populated fields are exactly the declared fields with a non-null cell in the
\* sample and no probe was sent for the unit; when the bulk query failed or
\* returned nothing, every declared field was probed and the populated fields
\* are exactly those whose probe returned a non-null value.
C13_BulkSampleElseProbeEveryField ==
    pc = "detected" =>
        \A u \in Range(DiscoveredUnits) :
            /\ (BulkReturnedRows(u) /\ NonNullInSample(u) # {}) =>
                   /\ Range(PopulatedFields(u)) = NonNullInSample(u)
                   /\ ProbedFields(u) = {}
            /\ ~BulkReturnedRows(u) =>
                   /\ ProbedFields(u) = Range(DeclaredFields)
                   /\ Range(PopulatedFields(u))
                          = {f \in Range(DeclaredFields) : probeResp[u][f] = "value"}

----------------------------------------------------------------------------
(* C14.  A failing discovery request costs only its own unit or field.         *)

\* The unit's bulk sample settles its populated fields (no probe follows).
SettledBySample(unit) == BulkReturnedRows(unit) /\ NonNullInSample(unit) # {}

\* The request that looks at (unit, field) succeeds and shows data: the bulk
\* sample where it settles the unit, the field's own probe otherwise.
ShowsData(unit, field) ==
    IF SettledBySample(unit) THEN field \in NonNullInSample(unit)
    ELSE probeResp[unit][field] = "value"

HasItem(unit, field) ==
    \E a \in 1..Len(sensors_and_fields) :
        UnitOf(sensors_and_fields[a]) = unit /\ FieldOf(sensors_and_fields[a]) = field

\* C14: once the detection has returned, whatever requests failed, every
\* discovered unit and declared field whose own request succeeded and showed
\* data has its work item; a failed request takes away no item but those of the
\* unit or field it asked about.
C14_FailureCostsOnlyItsOwnStep ==
    pc = "detected" =>
        \A u \in Range(DiscoveredUnits) :
            \A f \in Range(DeclaredFields) :
                ShowsData(u, f) => HasItem(u, f)

----------------------------------------------------------------------------
(* C15.  Termination of the chunker and the number and length of its chunks.   *)

\* The span the claim gives a resolution, in ticks; 0 for the others.
ClaimedSpan ==
    IF resolution = "1s" THEN 7 * Day
    ELSE IF resolution \in {"5s", "15s", "1m"} THEN 14 * Day
    ELSE 0

CeilDiv(a, b) == (a + b - 1) \div b

LengthOf(c) == c[2] - c[1]

IsChunked == start_str < end_str /\ ClaimedSpan # 0

\* The number of chunks and their lengths, as the claim gives them.
CountAndLengths ==
    /\ Len(chunks) = CeilDiv(end_str - start_str, ClaimedSpan)
    /\ \A k \in 1..(Len(chunks) - 1) : LengthOf(chunks[k]) = ClaimedSpan
    /\ LengthOf(chunks[Len(chunks)]) <= ClaimedSpan

====
